---- MODULE Spec2Model ----
(***************************************************************************)
(* Model of the tool dispatch / normalisation core of the n8n MCP bridge:  *)
(* the Remote Client (src/src/n8n_client.py), the Tool Contract            *)
(* (src/src/tools/base.py) and the tools built on them                     *)
(* (src/src/tools/*.py).                                                   *)
(*                                                                         *)
(* One tool invocation is a coroutine: BaseTool.run calls execute, which   *)
(* runs until its next awaited remote call.  Every HTTP attempt is one     *)
(* step whose answer (a transport fault or a status and a body) is chosen  *)
(* by the environment.                                                     *)
(***************************************************************************)
EXTENDS Integers, Sequences, FiniteSets, TLC

VARIABLES
    pc,        \* "idle" | "await" (suspended in N8NClient._request) | "done"
    tool,      \* name of the tool being run
    args,      \* the argument map handed to run
    stage,     \* which await of execute the coroutine is suspended at
    req,       \* the request the pending _request call sends
    attempt,   \* attempt number of the pending _request call (tenacity)
    loc,       \* locals of execute that live across an await
    calls,     \* HTTP requests issued during this invocation, in order, each with
               \* its attempt number and the fault or status that answered it
    last,      \* the most recent finished _request call: its answer and its result
    outcome,   \* how execute ended (return value or exception)
    result,    \* what run gave its caller
    store,     \* the workflows the upstream holds, in the order it lists them
    ops,       \* the Remote Client calls in flight, one per concurrent caller
    log,       \* every request the upstream answered and every external write,
               \* in the order they happened
    api,       \* the management request being served: its endpoint and
               \* Authorization header, the clients its handler created and
               \* closed, the HTTP status it was answered with
    srv        \* the server process: where run() is, its mode, its client,
               \* the shutdown event and the tasks it started

\* the variables of one tool invocation
toolvars == <<pc, tool, args, stage, req, attempt, loc, calls, last, outcome, result>>

vars == <<pc, tool, args, stage, req, attempt, loc, calls, last, outcome, result,
          store, ops, log, api, srv>>

----------------------------------------------------------------------------
(* Bounds *)

\* longest array the upstream puts in a response body
MaxLen == 2

\* longest execution history the upstream returns to the health tool
MaxExecs == 100

\* Remote Client calls started in one behaviour
MaxOps == 2

\* writes by other clients of the upstream in one behaviour
MaxWrites == 1

\* most workflows the upstream holds
MaxWorkflows == 3

----------------------------------------------------------------------------
(* Python values of the argument map.  bool is a subclass of int, so a     *)
(* bool carries its integer value in n.                                     *)

Absent  == [ty |-> "absent", n |-> 0, s |-> ""]
PyBool(b) == [ty |-> "bool", n |-> IF b THEN 1 ELSE 0, s |-> ""]
PyInt(i)  == [ty |-> "int", n |-> i, s |-> ""]
PyStr(x)  == [ty |-> "str", n |-> 0, s |-> x]

\* Python truth value of an argument value (used by "if not x")
Truthy(v) ==
    CASE v.ty = "bool" -> v.n # 0
      [] v.ty = "int"  -> v.n # 0
      [] v.ty = "str"  -> v.s # ""
      [] OTHER         -> FALSE

\* arguments.get(key, default)
ArgGet(a, key, default) == IF a[key].ty = "absent" THEN default ELSE a[key]

WorkflowIdVals == {Absent, PyStr("1")}
ConfirmVals == {Absent, PyBool(TRUE), PyBool(FALSE), PyStr("false"), PyStr(""),
                PyInt(0), PyInt(1)}
LimitVals == {Absent, PyInt(-5), PyInt(0), PyInt(1), PyInt(9), PyInt(10), PyInt(20),
              PyInt(250), PyInt(251), PyInt(1000), PyInt(1001), PyStr("abc")}
StatusVals == {Absent, PyStr("all"), PyStr("active"), PyStr("inactive")}

\* a text argument keeps its characters, so that lower() and "in" can be computed
AbsentText == [ty |-> "absent", n |-> 0, s |-> <<>>]
PyText(chars) == [ty |-> "str", n |-> 0, s |-> chars]

NoArgs == [workflow_id |-> Absent, confirm |-> Absent, limit |-> Absent, status |-> Absent,
           query |-> AbsentText, active_only |-> Absent]

----------------------------------------------------------------------------
(* JSON values and what the transport can answer *)

\* an element of a list body: the fields of an Execution or a Workflow that the
\* core reads (a missing key reads as false: e.get("finished"), w.get("active", False));
\* an element is an execution in one of its four shapes or an active workflow
Items ==
    {[finished |-> f, stoppedAt |-> st, active |-> FALSE] : f \in BOOLEAN, st \in BOOLEAN}
    \cup {[finished |-> FALSE, stoppedAt |-> FALSE, active |-> TRUE]}

Lists == UNION {[1..n -> Items] : n \in 0..MaxLen}

JArray(L) == [shape |-> "array", data |-> "absent", items |-> L, active |-> "absent"]
JObject(d, L, act) == [shape |-> "object", data |-> d, items |-> L, active |-> act]
JScalar == [shape |-> "scalar", data |-> "absent", items |-> <<>>, active |-> "absent"]
\* the empty result {}
EmptyResult == JObject("absent", <<>>, "absent")

JsonVals ==
    {JArray(L) : L \in Lists}
    \cup {JObject("array", L, "absent") : L \in Lists}
    \cup {JObject("null", <<>>, "absent")}
    \cup {JObject("absent", <<>>, act) : act \in {"absent", "true", "false"}}
    \cup {JScalar}

ErrorStatuses == {400, 401, 403, 404, 500, 503}

\* content: "empty" (no bytes), "text" (bytes that are not JSON), "json"
Answer(f, st, c, j) == [fault |-> f, status |-> st, content |-> c, json |-> j]

NoAnswer == Answer("none", 0, "empty", EmptyResult)

TransportAnswers ==
    {Answer(f, 0, "empty", EmptyResult) : f \in {"NetworkError", "TimeoutException"}}
    \cup {Answer("none", st, "empty", EmptyResult) : st \in ErrorStatuses}
    \cup {Answer("none", 204, c, EmptyResult) : c \in {"empty", "text"}}
    \cup {Answer("none", 200, c, EmptyResult) : c \in {"empty", "text"}}
    \cup {Answer("none", 200, "json", j) : j \in JsonVals}

----------------------------------------------------------------------------
(* Exceptions *)

N8NErrors == {"N8NError", "N8NConnectionError", "N8NAuthError", "N8NNotFoundError",
              "N8NValidationError"}
\* json.JSONDecodeError is a subclass of ValueError
ValueErrors == {"ValueError", "JSONDecodeError"}
Exceptions == N8NErrors \cup ValueErrors
              \cup {"TypeError", "AttributeError", "RetryError", "NetworkError",
                    "TimeoutException"}

\* result of a call: a value or a raised exception
Ok(v) == [ok |-> TRUE, exc |-> "", value |-> v]
Raised(e) == [ok |-> FALSE, exc |-> e, value |-> EmptyResult]

----------------------------------------------------------------------------
(* Remote Client: N8NClient *)

\* tenacity: stop_after_attempt(3)
StopAfterAttempt == 3

\* response.raise_for_status() raises HTTPStatusError unless the status is 2xx
IsSuccess(st) == st >= 200 /\ st < 300

\* response.json(): the parser fails on bytes that are not JSON
ResponseJson(ans) ==
    IF ans.content = "json" THEN Ok(ans.json) ELSE Raised("JSONDecodeError")

\* N8NClient._handle_response
handle_response(ans) ==
    IF IsSuccess(ans.status)
    THEN IF ans.status = 204 \/ ans.content = "empty"
         THEN Ok(EmptyResult)
         ELSE ResponseJson(ans)
    ELSE IF ans.status \in {401, 403} THEN Raised("N8NAuthError")
    ELSE IF ans.status = 404 THEN Raised("N8NNotFoundError")
    ELSE IF ans.status = 400 THEN Raised("N8NValidationError")
    ELSE Raised("N8NError")

\* the body of N8NClient._request (one attempt): the transport's network
\* faults are caught inside the function and re-raised as N8NConnectionError
request_attempt(ans) ==
    IF ans.fault \in {"NetworkError", "TimeoutException"}
    THEN Raised("N8NConnectionError")
    ELSE handle_response(ans)

\* variant: the retry predicate also matches the client's own failures
retry_if_exception_type_any(exc) ==
    exc \in {"NetworkError", "TimeoutException"} \cup N8NErrors

\* the @retry predicate: retry_if_exception_type((NetworkError, TimeoutException)),
\* applied to the exception that leaves the decorated function
retry_if_exception_type(exc) == exc \in {"NetworkError", "TimeoutException"}

\* variant: the list is taken from the object only, a bare array is not accepted
normalize_list_object_only(response) ==
    IF response.shape = "object" /\ response.data # "absent"
    THEN IF response.data = "array" THEN Ok(JArray(response.items))
         ELSE Raised("TypeError")
    ELSE Ok(JArray(<<>>))

\* the shape detection shared by N8NClient.list_workflows and get_executions;
\* len() of the chosen value is taken for the log line, so a null "data" raises
normalize_list(response) ==
    IF response.shape = "object" /\ response.data # "absent"
    THEN IF response.data = "array" THEN Ok(JArray(response.items))
         ELSE Raised("TypeError")
    ELSE IF response.shape = "array" THEN Ok(JArray(response.items))
    ELSE Ok(JArray(<<>>))

\* N8NClient.list_workflows, after its awaited request returned
list_workflows(response) == normalize_list(response)

\* N8NClient.get_executions, after its awaited request returned
get_executions(response) == normalize_list(response)

\* str.lower(): the capital letters are replaced, other characters are unchanged
LowerCase ==
    [A |-> "a", B |-> "b", C |-> "c", D |-> "d", E |-> "e", F |-> "f", G |->
     "g", H |-> "h", I |-> "i", J |-> "j", K |-> "k", L |-> "l", M |-> "m", N
     |-> "n", O |-> "o", P |-> "p", Q |-> "q", R |-> "r", S |-> "s", T |-> "t",
     U |-> "u", V |-> "v", W |-> "w", X |-> "x", Y |-> "y", Z |-> "z"]
LowerChar(c) == IF c \in DOMAIN LowerCase THEN LowerCase[c] ELSE c
Lower(text) == [i \in 1..Len(text) |-> LowerChar(text[i])]

\* Python "sub in text" on strings
In(sub, text) ==
    \E i \in 0..(Len(text) - Len(sub)) : SubSeq(text, i + 1, i + Len(sub)) = sub

\* w.get("name", "") and w.get("tags", []) of a workflow of the list body
NameOf(w) == IF w.hasName THEN w.name ELSE <<>>
TagsOf(w) == IF w.hasTags THEN w.tags ELSE <<>>

\* variant: only the name is searched
search_workflows_name_only(query, all_workflows) ==
    LET query_lower == Lower(query)
    IN  SelectSeq(all_workflows, LAMBDA w : In(query_lower, Lower(NameOf(w))))

\* N8NClient.search_workflows, after list_workflows returned all_workflows
search_workflows(query, all_workflows) ==
    LET query_lower == Lower(query)
    IN  SelectSeq(all_workflows,
            LAMBDA w : \/ In(query_lower, Lower(NameOf(w)))
                      \/ \E t \in 1..Len(TagsOf(w)) : In(query_lower, Lower(TagsOf(w)[t])))

----------------------------------------------------------------------------
(* Statistics and health *)

\* number of elements of L that satisfy P
Count(L, P(_)) == Cardinality({i \in 1..Len(L) : P(L[i])})

\* round((num / den) * 100, 2), in hundredths of a percent; Python rounds a
\* tie to the even neighbour
Round2(num, den) ==
    LET q == (num * 10000) \div den
        r == (num * 10000) % den
    IN  IF 2 * r > den THEN q + 1
        ELSE IF 2 * r = den THEN q + (q % 2)
        ELSE q

\* variant: every finished execution counts as a success
get_workflow_statistics_finished_only(L) ==
    LET total == Len(L)
        success_count == Count(L, LAMBDA e : e.finished)
        error_count == Count(L, LAMBDA e : e.stoppedAt)
        waiting_count == Count(L, LAMBDA e : ~e.finished)
    IN  IF total = 0
        THEN [total_executions |-> 0, success_count |-> 0, error_count |-> 0,
              waiting_count |-> 0, success_rate |-> 0, error_rate |-> 0]
        ELSE [total_executions |-> total, success_count |-> success_count,
              error_count |-> error_count, waiting_count |-> waiting_count,
              success_rate |-> Round2(success_count, total),
              error_rate |-> Round2(error_count, total)]

\* N8NClient.get_workflow_statistics, after get_executions returned L
get_workflow_statistics(L) ==
    LET total == Len(L)
        success_count == Count(L, LAMBDA e : e.finished /\ ~e.stoppedAt)
        error_count == Count(L, LAMBDA e : e.stoppedAt)
        waiting_count == Count(L, LAMBDA e : ~e.finished)
    IN  IF total = 0
        THEN [total_executions |-> 0, success_count |-> 0, error_count |-> 0,
              waiting_count |-> 0, success_rate |-> 0, error_rate |-> 0]
        ELSE [total_executions |-> total, success_count |-> success_count,
              error_count |-> error_count, waiting_count |-> waiting_count,
              success_rate |-> Round2(success_count, total),
              error_rate |-> Round2(error_count, total)]

\* variant: the comparisons include the boundary (<= 5, <= 20)
health_status_inclusive(error_rate) ==
    IF error_rate = 0 THEN "excellent"
    ELSE IF error_rate <= 500 THEN "good"
    ELSE IF error_rate <= 2000 THEN "fair"
    ELSE "poor"

\* GetWorkflowHealthTool.execute: health status from the error rate
\* (error_rate in hundredths of a percent: 500 is 5.0)
health_status(error_rate) ==
    IF error_rate = 0 THEN "excellent"
    ELSE IF error_rate < 500 THEN "good"
    ELSE IF error_rate < 2000 THEN "fair"
    ELSE "poor"

FallbackMessage == "Workflow health is good. Continue monitoring for any issues."

\* variant: the fallback message is appended whatever else was said
generate_recommendations_always_fallback(error_rate, total_executions, is_active) ==
    LET r1 == IF error_rate > 2000
              THEN <<"High error rate detected. Review workflow logs and fix failing nodes.">>
              ELSE IF error_rate > 500
              THEN <<"Moderate error rate. Consider investigating recent failures.">>
              ELSE <<>>
        r3 == IF total_executions > 0 /\ error_rate = 0
              THEN <<"Excellent! Workflow is running smoothly with no errors.">>
              ELSE <<>>
    IN  r1 \o r3 \o <<FallbackMessage>>

\* GetWorkflowHealthTool._generate_recommendations
generate_recommendations(error_rate, total_executions, is_active) ==
    LET r1 == IF error_rate > 2000
              THEN <<"High error rate detected. Review workflow logs and fix failing nodes.">>
              ELSE IF error_rate > 500
              THEN <<"Moderate error rate. Consider investigating recent failures.">>
              ELSE <<>>
        r2 == IF total_executions = 0
              THEN IF is_active
                   THEN <<"No executions found. Verify workflow triggers are configured correctly.">>
                   ELSE <<"Workflow is inactive and has no executions. Activate to start processing.">>
              ELSE <<>>
        r3 == IF total_executions > 0 /\ error_rate = 0
              THEN <<"Excellent! Workflow is running smoothly with no errors.">>
              ELSE <<>>
        recommendations == r1 \o r2 \o r3
    IN  IF recommendations = <<>> THEN <<FallbackMessage>> ELSE recommendations

----------------------------------------------------------------------------
(* The upstream's workflows and the Remote Client calls that change them *)

\* a workflow as the upstream stores and returns it; nodes, connections,
\* settings and tags are opaque values
Workflow(id, name, nodes, connections, settings, tags, active) ==
    [id |-> id, name |-> name, nodes |-> nodes, connections |-> connections,
     settings |-> settings, tags |-> tags, active |-> active]
NoWorkflow == Workflow("", "", "", "", "", "", FALSE)

\* the fields of a workflow definition a client can write besides active
DefinitionFields == {"name", "nodes", "connections", "settings", "tags"}

\* the workflow with the given id as first created, and the value another
\* writer gives one of its fields
Original(id, act) ==
    Workflow(id, "name1", "nodes1", "connections1", "settings1", "tags1", act)
Revised(f) ==
    [name |-> "name2", nodes |-> "nodes2", connections |-> "connections2",
     settings |-> "settings2", tags |-> "tags2"][f]

\* the positions of the stored workflows with the given id
Position(st, id) == {i \in 1..Len(st) : st[i].id = id}

\* the request of a Remote Client method: _request(method, endpoint, json=body),
\* limit being the query parameter of a list request (0: none)
ClientReq(method, endpoint, id, body) ==
    [method |-> method, endpoint |-> endpoint, id |-> id, body |-> body, limit |-> 0]
NoClientReq == ClientReq("", "", "", NoWorkflow)

\* the upstream stores a PUT body: the fields the body carries replace the
\* stored ones, the id is the one of the path
Stored(old, body) ==
    [f \in DOMAIN old |-> IF f \in DOMAIN body /\ f # "id" THEN body[f] ELSE old[f]]

\* the store after the upstream served the request
Served(st, rq) ==
    IF rq.method = "PUT" /\ Position(st, rq.id) # {}
    THEN [i \in 1..Len(st) |-> IF st[i].id = rq.id THEN Stored(st[i], rq.body) ELSE st[i]]
    ELSE st

\* the answer of an upstream that serves the request
Served_answer(st, rq) ==
    IF rq.endpoint = "/workflows"
    THEN Answer("none", 200, "json",
                JArray(IF rq.limit > 0 /\ rq.limit < Len(st) THEN SubSeq(st, 1, rq.limit)
                       ELSE st))
    ELSE IF Position(st, rq.id) = {} THEN Answer("none", 404, "empty", EmptyResult)
    ELSE Answer("none", 200, "json",
                Served(st, rq)[CHOOSE i \in Position(st, rq.id) : TRUE])

\* the answers that mean the request was not served: a network fault, a server
\* error
Failures ==
    {Answer("NetworkError", 0, "empty", EmptyResult),
     Answer("none", 500, "empty", EmptyResult)}

\* the result of a Remote Client method
Returned(v) == [ok |-> TRUE, exc |-> "", value |-> v, status |-> ""]
Thrown(e) == [ok |-> FALSE, exc |-> e, value |-> NoWorkflow, status |-> ""]

\* the arguments of the update_workflow tool: a definition field that is not
\* supplied is "absent"
NoUpdate == [name |-> "absent", nodes |-> "absent", connections |-> "absent",
             settings |-> "absent", tags |-> "absent", active |-> "absent"]

\* a Remote Client call: the suspended coroutine of one caller
NoOp == [method |-> "", pc |-> "idle", stage |-> "", arg |-> NoUpdate, req |-> NoClientReq,
         attempt |-> 0, out |-> Returned(NoWorkflow)]

Callers == {1, 2}

\* what a client coroutine does next: await a request, or end with a result
Await(rq, st) == [kind |-> "call", req |-> rq, stage |-> st, out |-> Returned(NoWorkflow)]
End(out) == [kind |-> "end", req |-> NoClientReq, stage |-> "", out |-> out]

\* N8NClient.get_workflow, N8NClient.update_workflow: the request each sends
get_workflow(id) == ClientReq("GET", "/workflows/{id}", id, NoWorkflow)

\* variant: the PUT carries a blank definition with the flag of the given one
update_workflow_blank(id, workflow_data) ==
    ClientReq("PUT", "/workflows/{id}", id, [NoWorkflow EXCEPT !.active = workflow_data.active])

update_workflow(id, workflow_data) == ClientReq("PUT", "/workflows/{id}", id, workflow_data)

\* N8NClient.activate_workflow: from the entry, and from an await with the
\* value v the awaited call returned
activate_workflow_start(id) == Await(get_workflow(id), "get_workflow")

\* variant: the PUT carries the active flag only
activate_workflow_flag_only(st, id, v) ==
    IF st = "get_workflow"
    THEN Await(update_workflow(id, [active |-> TRUE]), "update_workflow")
    ELSE End(Returned(v))

activate_workflow_resume(st, id, v) ==
    IF st = "get_workflow"
    THEN LET workflow == [v EXCEPT !.active = TRUE]
         IN  Await(update_workflow(id, workflow), "update_workflow")
    ELSE End(Returned(v))

\* N8NClient.deactivate_workflow
deactivate_workflow_start(id) == Await(get_workflow(id), "get_workflow")

\* variant: the flag is set as activate_workflow sets it
deactivate_workflow_sets_true(st, id, v) ==
    IF st = "get_workflow"
    THEN LET workflow == [v EXCEPT !.active = TRUE]
         IN  Await(update_workflow(id, workflow), "update_workflow")
    ELSE End(Returned(v))

deactivate_workflow_resume(st, id, v) ==
    IF st = "get_workflow"
    THEN LET workflow == [v EXCEPT !.active = FALSE]
         IN  Await(update_workflow(id, workflow), "update_workflow")
    ELSE End(Returned(v))

\* N8NClient.health_check: the probe, and the two ways it ends
health_check_start ==
    Await([ClientReq("GET", "/workflows", "", NoWorkflow) EXCEPT !.limit = 1], "health_check")

\* variant: the failure of the probe is passed on as it is
health_check_reraise(o) ==
    IF o.ok THEN End([Returned(NoWorkflow) EXCEPT !.status = "healthy"])
    ELSE End(Thrown(o.exc))

health_check_resume(o) ==
    IF o.ok THEN End([Returned(NoWorkflow) EXCEPT !.status = "healthy"])
    ELSE End(Thrown("N8NConnectionError"))

\* N8NClient.list_workflows and N8NClient.execute_workflow as client calls
list_workflows_start == Await(ClientReq("GET", "/workflows", "", NoWorkflow), "list_workflows")
list_workflows_resume(v) ==
    LET r == list_workflows(v)
    IN  IF r.ok THEN End(Returned(r.value)) ELSE End(Thrown(r.exc))
execute_workflow_start(id) ==
    Await(ClientReq("POST", "/workflows/{id}/execute", id, NoWorkflow), "execute_workflow")

----------------------------------------------------------------------------
(* Management API: authentication *)

\* an Authorization header: missing, or its value as the words that
\* whitespace separates (no word: the value is empty or blank)
NoHeader == [present |-> FALSE, words |-> <<>>]
Header(words) == [present |-> TRUE, words |-> words]

\* str.lower() of the first word of the headers tried
LowerWord(w) ==
    CASE w \in {"Bearer", "bearer", "BEARER"} -> "bearer"
      [] w = "Basic" -> "basic"
      [] w = "InvalidFormat" -> "invalidformat"
      [] OTHER -> w

\* len() of words joined by single spaces
RECURSIVE JoinedLen(_)
JoinedLen(words) ==
    IF words = <<>> THEN 0
    ELSE IF Len(words) = 1 THEN Len(words[1])
    ELSE Len(words[1]) + 1 + JoinedLen(Tail(words))

\* shortest token verify_portal_token accepts
MinTokenLen == 10

\* variant: the length of the token is not looked at
verify_portal_token_any_length(authorization) ==
    IF ~authorization.present \/ authorization.words = <<>> THEN FALSE
    ELSE IF Len(authorization.words) < 2 THEN FALSE
    ELSE LowerWord(authorization.words[1]) = "bearer"

\* verify_portal_token: TRUE when the token is returned, FALSE when
\* HTTPException(401) is raised.  authorization.split(maxsplit=1) must give
\* two parts, the scheme and the rest of the value
verify_portal_token(authorization) ==
    IF ~authorization.present \/ authorization.words = <<>> THEN FALSE
    ELSE IF Len(authorization.words) < 2 THEN FALSE
    ELSE LET scheme == authorization.words[1]
             token_len == JoinedLen(Tail(authorization.words))
         IN  IF LowerWord(scheme) # "bearer" THEN FALSE
             ELSE IF token_len < MinTokenLen THEN FALSE
             ELSE TRUE

----------------------------------------------------------------------------
(* Tool Contract: BaseTool *)

NoStats == [total_executions |-> 0, success_count |-> 0, error_count |-> 0,
            waiting_count |-> 0, success_rate |-> 0, error_rate |-> 0]

\* the payload a tool's execute returns; a tool fills the fields of its report
NoData == [total_count |-> 0, success_count |-> 0, error_count |-> 0,
           running_count |-> 0, filter |-> "", workflows |-> <<>>,
           executions |-> <<>>, deleted |-> FALSE,
           is_active |-> FALSE, health_status |-> "", statistics |-> NoStats,
           recommendations |-> <<>>, query |-> <<>>, total_matches |-> 0]

\* what a coroutine does next: await a request, return, or raise
Call(rq, st, lc) ==
    [kind |-> "call", req |-> rq, stage |-> st, loc |-> lc, exc |-> "", data |-> NoData]
NoReq == [method |-> "", endpoint |-> "", active |-> "", limit |-> 0]
NoLoc == [is_active |-> FALSE]
Return(d) ==
    [kind |-> "return", req |-> NoReq, stage |-> "", loc |-> NoLoc, exc |-> "", data |-> d]
Raise(e) ==
    [kind |-> "raise", req |-> NoReq, stage |-> "", loc |-> NoLoc, exc |-> e, data |-> NoData]

NoError == [type |-> "", message |-> <<"", "">>]
NoResult == [escaped |-> FALSE, exc |-> "", success |-> FALSE, hasData |-> FALSE,
             data |-> NoData, hasError |-> FALSE, error |-> NoError]

\* BaseTool._format_success
format_success(d) ==
    [NoResult EXCEPT !.success = TRUE, !.hasData = TRUE, !.data = d]

\* BaseTool._format_error
format_error(message, error_type) ==
    [NoResult EXCEPT !.hasError = TRUE, !.error = [type |-> error_type, message |-> message]]

\* variant: no catch-all clause
run_no_catch_all(step) ==
    IF step.kind = "return" THEN format_success(step.data)
    ELSE IF step.exc \in N8NErrors THEN format_error(<<"", step.exc>>, "n8n_error")
    ELSE IF step.exc \in ValueErrors THEN format_error(<<"", step.exc>>, "validation_error")
    ELSE [NoResult EXCEPT !.escaped = TRUE, !.exc = step.exc]

\* BaseTool.run, once execute has returned or raised: the except clauses in
\* their order (N8NError, ValueError, Exception)
run(step) ==
    IF step.kind = "return" THEN format_success(step.data)
    ELSE IF step.exc \in N8NErrors THEN format_error(<<"", step.exc>>, "n8n_error")
    ELSE IF step.exc \in ValueErrors THEN format_error(<<"", step.exc>>, "validation_error")
    ELSE IF step.exc \in Exceptions
    THEN format_error(<<"Unexpected error: ", step.exc>>, "internal_error")
    ELSE [NoResult EXCEPT !.escaped = TRUE, !.exc = step.exc]

\* variant: the check stops at the first required name that is missing
validate_required_args_first_only(a, required) ==
    LET missing == SelectSeq(required, LAMBDA k : a[k].ty = "absent")
    IN  IF missing = <<>> THEN <<>> ELSE <<missing[1]>>

\* BaseTool._validate_required_args: the required names missing from the map
validate_required_args(a, required) ==
    SelectSeq(required, LAMBDA k : a[k].ty = "absent")

\* BaseTool._validate_required_args, its end: nothing is raised when no name is
\* missing; otherwise a ValueError whose message is the fixed text followed by
\* ", ".join(missing)
required_args_failure(a, required) ==
    LET missing == validate_required_args(a, required)
    IN  [raised |-> missing # <<>>,
         exc |-> IF missing # <<>> THEN "ValueError" ELSE "",
         text |-> IF missing # <<>> THEN "Missing required arguments: " ELSE "",
         joined |-> missing]

----------------------------------------------------------------------------
(* Tool Set.  X_start is execute up to its first await, X_resume(st, ...)  *)
(* is execute from the await st, given the value the awaited call returned *)

Get(endpoint) == [method |-> "GET", endpoint |-> endpoint, active |-> "", limit |-> 0]

\* variant: the status is not turned into a filter
ListWorkflowsTool_unfiltered(a) ==
    Call([Get("/workflows") EXCEPT !.active = ""], "list_workflows", NoLoc)

\* ListWorkflowsTool.execute
ListWorkflowsTool_start(a) ==
    LET status_filter == ArgGet(a, "status", PyStr("all"))
        active == IF status_filter = PyStr("active") THEN "true"
                  ELSE IF status_filter = PyStr("inactive") THEN "false"
                  ELSE ""
    IN  Call([Get("/workflows") EXCEPT !.active = active], "list_workflows", NoLoc)

ListWorkflowsTool_resume(st, a, lc, v) ==
    LET r == list_workflows(v)
        workflows == r.value.items
    IN  IF ~r.ok THEN Raise(r.exc)
        ELSE Return([NoData EXCEPT
                 !.total_count = Len(workflows),
                 !.filter = ArgGet(a, "status", PyStr("all")).s,
                 !.workflows = [i \in 1..Len(workflows) |-> [active |-> workflows[i].active]]])

\* DeleteWorkflowTool.execute: "if not arguments.get('confirm', False): raise"
confirmed(a) == Truthy(ArgGet(a, "confirm", PyBool(FALSE)))

\* variant: the workflow is deleted without being fetched first
DeleteWorkflowTool_delete_first(a) ==
    IF validate_required_args(a, <<"workflow_id", "confirm">>) # <<>> THEN Raise("ValueError")
    ELSE IF ~confirmed(a) THEN Raise("ValueError")
    ELSE Call([Get("/workflows/{id}") EXCEPT !.method = "DELETE"], "delete_workflow", NoLoc)

\* DeleteWorkflowTool.execute
DeleteWorkflowTool_start(a) ==
    IF validate_required_args(a, <<"workflow_id", "confirm">>) # <<>> THEN Raise("ValueError")
    ELSE IF ~confirmed(a) THEN Raise("ValueError")
    ELSE Call(Get("/workflows/{id}"), "get_workflow", NoLoc)

DeleteWorkflowTool_resume(st, a, lc, v) ==
    IF st = "get_workflow"
    THEN \* workflow.get("name", "Unknown"): only a JSON object has get
         IF v.shape # "object" THEN Raise("AttributeError")
         ELSE Call([Get("/workflows/{id}") EXCEPT !.method = "DELETE"], "delete_workflow", NoLoc)
    ELSE Return([NoData EXCEPT !.deleted = TRUE])

\* variant: finished is tested before stoppedAt
determine_status_finished_first(execution) ==
    IF execution.finished THEN "success"
    ELSE IF execution.stoppedAt THEN "error"
    ELSE "running"

\* GetExecutionsTool._determine_status
determine_status(execution) ==
    IF execution.stoppedAt THEN "error"
    ELSE IF execution.finished THEN "success"
    ELSE "running"

\* variant: the range test is off by one at both ends
limit_check_exclusive(limit, lo, hi) ==
    IF limit.ty \in {"int", "bool"}
    THEN IF limit.n <= lo \/ limit.n >= hi THEN "ValueError" ELSE "ok"
    ELSE "TypeError"

\* the "Validate limit" statement of GetExecutionsTool.execute and
\* GetWorkflowHealthTool.execute, "if limit < lo or limit > hi: raise ValueError";
\* ordering a str against an int raises TypeError
limit_check(limit, lo, hi) ==
    IF limit.ty \in {"int", "bool"}
    THEN IF limit.n < lo \/ limit.n > hi THEN "ValueError" ELSE "ok"
    ELSE "TypeError"

\* GetExecutionsTool.execute
GetExecutionsTool_start(a) ==
    LET limit == ArgGet(a, "limit", PyInt(20))
        chk == limit_check(limit, 1, 250)
    IN  IF chk # "ok" THEN Raise(chk)
        ELSE Call([Get("/executions") EXCEPT !.limit = limit.n], "get_executions", NoLoc)

GetExecutionsTool_resume(st, a, lc, v) ==
    LET r == get_executions(v)
        executions == r.value.items
        formatted_executions ==
            [i \in 1..Len(executions) |->
                [stopped_at |-> executions[i].stoppedAt,
                 finished |-> executions[i].finished,
                 status |-> determine_status(executions[i])]]
    IN  IF ~r.ok THEN Raise(r.exc)
        ELSE Return([NoData EXCEPT
                 !.total_count = Len(formatted_executions),
                 !.success_count = Count(formatted_executions, LAMBDA e : e.status = "success"),
                 !.error_count = Count(formatted_executions, LAMBDA e : e.status = "error"),
                 !.running_count = Count(formatted_executions, LAMBDA e : e.status = "running"),
                 !.filter = ArgGet(a, "status", PyStr("all")).s,
                 !.executions = formatted_executions])

\* the report GetWorkflowHealthTool.execute builds from the statistics
health_report(stats, is_active) ==
    [NoData EXCEPT
        !.is_active = is_active,
        !.health_status = health_status(stats.error_rate),
        !.statistics = stats,
        !.recommendations =
            generate_recommendations(stats.error_rate, stats.total_executions, is_active)]

\* GetWorkflowHealthTool.execute
GetWorkflowHealthTool_start(a) ==
    LET limit == ArgGet(a, "limit", PyInt(100))
        chk == limit_check(limit, 10, 1000)
    IN  IF validate_required_args(a, <<"workflow_id">>) # <<>> THEN Raise("ValueError")
        ELSE IF chk # "ok" THEN Raise(chk)
        ELSE Call(Get("/workflows/{id}"), "get_workflow", [is_active |-> FALSE])

GetWorkflowHealthTool_resume(st, a, lc, v) ==
    IF st = "get_workflow"
    THEN \* workflow.get("name", "Unknown"), workflow.get("active", False)
         IF v.shape # "object" THEN Raise("AttributeError")
         ELSE Call([Get("/executions") EXCEPT !.limit = ArgGet(a, "limit", PyInt(100)).n],
                   "get_workflow_statistics", [is_active |-> v.active = "true"])
    ELSE LET r == get_executions(v)
         IN  IF ~r.ok THEN Raise(r.exc)
             ELSE Return(health_report(get_workflow_statistics(r.value.items), lc.is_active))

\* the projection of a workflow that SearchWorkflowsTool reports
SearchRow(w) ==
    [named |-> w.hasName, name |-> w.name, tags |-> TagsOf(w), active |-> w.active]

\* SearchWorkflowsTool.execute
SearchWorkflowsTool_start(a) ==
    IF validate_required_args(a, <<"query">>) # <<>> THEN Raise("ValueError")
    ELSE LET active_only == ArgGet(a, "active_only", PyBool(FALSE))
             active_filter == IF Truthy(active_only) THEN "true" ELSE ""
         IN  Call([Get("/workflows") EXCEPT !.active = active_filter],
                  "search_workflows", NoLoc)

SearchWorkflowsTool_resume(st, a, lc, v) ==
    LET r == list_workflows(v)
        workflows == search_workflows(a.query.s, r.value.items)
    IN  IF ~r.ok THEN Raise(r.exc)
        ELSE Return([NoData EXCEPT
                 !.query = a.query.s,
                 !.total_matches = Len(workflows),
                 !.workflows = [i \in 1..Len(workflows) |-> SearchRow(workflows[i])]])

Tools == {"list_workflows", "delete_workflow", "get_executions", "get_workflow_health"}

\* execute of tool t, from its entry
Start(t, a) ==
    CASE t = "list_workflows" -> ListWorkflowsTool_start(a)
      [] t = "delete_workflow" -> DeleteWorkflowTool_start(a)
      [] t = "get_executions" -> GetExecutionsTool_start(a)
      [] t = "get_workflow_health" -> GetWorkflowHealthTool_start(a)
      [] t = "search_workflows" -> SearchWorkflowsTool_start(a)

\* execute of tool t, from the await it is suspended at
Resume(t, st, a, lc, v) ==
    CASE t = "list_workflows" -> ListWorkflowsTool_resume(st, a, lc, v)
      [] t = "delete_workflow" -> DeleteWorkflowTool_resume(st, a, lc, v)
      [] t = "get_executions" -> GetExecutionsTool_resume(st, a, lc, v)
      [] t = "get_workflow_health" -> GetWorkflowHealthTool_resume(st, a, lc, v)
      [] t = "search_workflows" -> SearchWorkflowsTool_resume(st, a, lc, v)

----------------------------------------------------------------------------
(* The invocation state machine *)

\* the argument maps tried for each tool
ArgSpace(t) ==
    CASE t = "list_workflows" ->
            {[NoArgs EXCEPT !.status = st] : st \in StatusVals}
      [] t = "delete_workflow" ->
            {[NoArgs EXCEPT !.workflow_id = w, !.confirm = c, !.limit = l] :
                w \in WorkflowIdVals, c \in ConfirmVals, l \in {Absent, PyInt(0)}}
      [] t = "get_executions" ->
            {[NoArgs EXCEPT !.workflow_id = w, !.limit = l, !.status = st] :
                w \in WorkflowIdVals, l \in LimitVals, st \in {Absent, PyStr("error")}}
      [] t = "get_workflow_health" ->
            {[NoArgs EXCEPT !.workflow_id = w, !.limit = l] :
                w \in WorkflowIdVals, l \in LimitVals}

NoLast == [req |-> NoReq, attempts |-> 0, answer |-> NoAnswer, out |-> Ok(EmptyResult)]
NoStep == Return(NoData)

InitTool ==
    /\ pc = "idle"
    /\ tool = ""
    /\ args = NoArgs
    /\ stage = ""
    /\ req = NoReq
    /\ attempt = 0
    /\ loc = NoLoc
    /\ calls = <<>>
    /\ last = NoLast
    /\ outcome = NoStep
    /\ result = NoResult

\* no call is in flight
NoCalls == [p \in Callers |-> NoOp]

\* no management request is being served
NoRequest == [pc |-> "idle", endpoint |-> "", authorization |-> NoHeader, status |-> 0,
              created |-> 0, closed |-> 0]

\* the server process before run() is called
NoServer == [pc |-> "new", mode |-> "", client |-> "none", event |-> FALSE,
             signalled |-> FALSE, stdio |-> "", http |-> "", management |-> "",
             raised |-> FALSE]

Init ==
    /\ InitTool
    /\ store = <<>>
    /\ ops = NoCalls
    /\ log = <<>>
    /\ api = NoRequest
    /\ srv = NoServer

\* the coroutine moves on: it suspends in the next _request, or execute ends
\* and run builds the envelope
Advance(step) ==
    IF step.kind = "call"
    THEN /\ pc' = "await"
         /\ stage' = step.stage
         /\ req' = step.req
         /\ attempt' = 1
         /\ loc' = step.loc
         /\ UNCHANGED <<outcome, result>>
    ELSE /\ pc' = "done"
         /\ stage' = ""
         /\ req' = NoReq
         /\ attempt' = 0
         /\ loc' = NoLoc
         /\ outcome' = step
         /\ result' = run(step)

\* a front end calls tool.run(arguments)
Invoke(t, a) ==
    /\ pc = "idle"
    /\ tool' = t
    /\ args' = a
    /\ calls' = <<>>
    /\ last' = NoLast
    /\ Advance(Start(t, a))

\* one HTTP attempt of the pending N8NClient._request call and what tenacity
\* does with its result: another attempt, or the call ends and execute resumes
HttpAttempt(ans) ==
    /\ pc = "await"
    /\ calls' = Append(calls, [req |-> req, attempt |-> attempt,
                                fault |-> ans.fault, status |-> ans.status])
    /\ LET o == request_attempt(ans)
           again == ~o.ok /\ retry_if_exception_type(o.exc)
       IN  IF again /\ attempt < StopAfterAttempt
           THEN /\ attempt' = attempt + 1
                /\ UNCHANGED <<pc, tool, args, stage, req, loc, last, outcome, result>>
           ELSE LET \* reraise is not set: an exhausted retry raises RetryError
                    final == IF again THEN Raised("RetryError") ELSE o
                IN  /\ last' = [req |-> req, attempts |-> attempt, answer |-> ans,
                                out |-> final]
                    /\ Advance(IF final.ok
                               THEN Resume(tool, stage, args, loc, final.value)
                               ELSE Raise(final.exc))
                    /\ UNCHANGED <<tool, args>>

\* the caller has taken the envelope; the next invocation may start
Finish ==
    /\ pc = "done"
    /\ pc' = "idle"
    /\ tool' = ""
    /\ args' = NoArgs
    /\ calls' = <<>>
    /\ last' = NoLast
    /\ outcome' = NoStep
    /\ result' = NoResult
    /\ UNCHANGED <<stage, req, attempt, loc>>

Next ==
    \/ pc = "idle" /\ (\E t \in Tools : \E a \in ArgSpace(t) : Invoke(t, a))
                   /\ UNCHANGED <<store, ops, log, api, srv>>
    \/ pc = "await" /\ (\E ans \in TransportAnswers : HttpAttempt(ans))
                    /\ UNCHANGED <<store, ops, log, api, srv>>
    \/ Finish /\ UNCHANGED <<store, ops, log, api, srv>>

Spec == Init /\ [][Next]_vars

----------------------------------------------------------------------------
(* The health tool against long execution histories *)

SuccessShaped == [finished |-> TRUE, stoppedAt |-> FALSE, active |-> FALSE]
ErrorShaped == [finished |-> TRUE, stoppedAt |-> TRUE, active |-> FALSE]
WaitingShaped == [finished |-> FALSE, stoppedAt |-> FALSE, active |-> FALSE]

\* a history of e failed, then s successful, then w unfinished executions
ExecList(s, e, w) ==
    [i \in 1..(s + e + w) |->
        IF i <= e THEN ErrorShaped ELSE IF i <= e + s THEN SuccessShaped ELSE WaitingShaped]

HealthArgs ==
    {[NoArgs EXCEPT !.workflow_id = PyStr("1"), !.limit = l] : l \in {Absent, PyInt(1000)}}

\* the upstream answers a request with a workflow object or with not-found
HealthAnswers ==
    {Answer("none", 200, "json", JObject("absent", <<>>, act)) : act \in {"true", "false"}}
    \cup {Answer("none", 404, "empty", EmptyResult)}

\* the upstream answers a request with a history as a bare array
HistoryAnswer(s, e, w) == Answer("none", 200, "json", JArray(ExecList(s, e, w)))

\* an execution that stopped without finishing
StoppedShaped == [finished |-> FALSE, stoppedAt |-> TRUE, active |-> FALSE]

\* a short history of s successful executions and x that stopped without finishing
StoppedHistoryAnswer(s, x) ==
    Answer("none", 200, "json", JArray(ExecList(s, 0, 0) \o [i \in 1..x |-> StoppedShaped]))

NextHealth ==
    \/ pc = "idle" /\ (\E a \in HealthArgs : Invoke("get_workflow_health", a))
                   /\ UNCHANGED <<store, ops, log, api, srv>>
    \/ pc = "await" /\ (\E ans \in HealthAnswers : HttpAttempt(ans))
                    /\ UNCHANGED <<store, ops, log, api, srv>>
    \/ pc = "await" /\ (\E n \in 0..MaxExecs, e \in 0..MaxExecs, w \in 0..1 :
                            e + w <= n /\ HttpAttempt(HistoryAnswer(n - e - w, e, w)))
                    /\ UNCHANGED <<store, ops, log, api, srv>>
    \/ pc = "await" /\ (\E s \in 0..2, x \in 1..2 : HttpAttempt(StoppedHistoryAnswer(s, x)))
                    /\ UNCHANGED <<store, ops, log, api, srv>>
    \/ Finish /\ UNCHANGED <<store, ops, log, api, srv>>

SpecHealth == Init /\ [][NextHealth]_vars

----------------------------------------------------------------------------
(* The search tool against workflows with names and tags *)

\* a workflow of the list body as search reads it: its name and its tags (either
\* key may be missing), and its active flag
Named(name, tags, act) ==
    [hasName |-> TRUE, name |-> name, hasTags |-> TRUE, tags |-> tags, active |-> act]

SearchItems ==
    {Named(<<"A", "b">>, <<>>, TRUE),
     Named(<<"b", "a">>, <<<<"A">>>>, FALSE),
     Named(<<"-">>, <<<<"b", "-">>, <<"a">>>>, TRUE),
     [Named(<<>>, <<<<"B">>>>, FALSE) EXCEPT !.hasName = FALSE],
     [Named(<<"b">>, <<>>, TRUE) EXCEPT !.hasTags = FALSE]}

SearchLists == UNION {[1..n -> SearchItems] : n \in 0..MaxLen}

Queries == {<<>>, <<"a">>, <<"A">>, <<"a", "b">>, <<"B">>, <<"-">>, <<"a", "a">>}

SearchArgs ==
    {[NoArgs EXCEPT !.query = q, !.active_only = ao] :
        q \in {AbsentText} \cup {PyText(c) : c \in Queries},
        ao \in {Absent, PyBool(TRUE)}}

SearchAnswers ==
    {Answer("none", 200, "json", JArray(L)) : L \in SearchLists}
    \cup {Answer("none", 200, "json", JObject("array", L, "absent")) : L \in SearchLists}
    \cup {Answer("none", 200, "json", EmptyResult), Answer("none", 500, "empty", EmptyResult),
          Answer("NetworkError", 0, "empty", EmptyResult)}

NextSearch ==
    \/ pc = "idle" /\ (\E a \in SearchArgs : Invoke("search_workflows", a))
                   /\ UNCHANGED <<store, ops, log, api, srv>>
    \/ pc = "await" /\ (\E ans \in SearchAnswers : HttpAttempt(ans))
                    /\ UNCHANGED <<store, ops, log, api, srv>>
    \/ Finish /\ UNCHANGED <<store, ops, log, api, srv>>

SpecSearch == Init /\ [][NextSearch]_vars

----------------------------------------------------------------------------
(* Remote Client calls against an upstream that other clients write too *)

\* UpdateWorkflowTool.execute: the merge of the supplied arguments over the
\* fetched workflow, field by field
UpdateWorkflowTool_start(a, id) == Await(get_workflow(id), "get_workflow")

\* variant: a field that is not supplied is sent empty (a replace, not a merge)
UpdateWorkflowTool_replace(st, a, id, v) ==
    IF st = "get_workflow"
    THEN LET workflow_data ==
                 [name |-> IF a.name = "absent" THEN "" ELSE a.name,
                  nodes |-> IF a.nodes = "absent" THEN "" ELSE a.nodes,
                  connections |-> IF a.connections = "absent" THEN "" ELSE a.connections,
                  settings |-> IF a.settings = "absent" THEN "" ELSE a.settings,
                  tags |-> IF a.tags = "absent" THEN "" ELSE a.tags,
                  active |-> IF a.active = "absent" THEN FALSE ELSE a.active = "true"]
         IN  Await(update_workflow(id, workflow_data), "update_workflow")
    ELSE End(Returned(v))

UpdateWorkflowTool_resume(st, a, id, v) ==
    IF st = "get_workflow"
    THEN LET current_workflow == v
             workflow_data ==
                 [name |-> IF a.name = "absent" THEN current_workflow.name ELSE a.name,
                  nodes |-> IF a.nodes = "absent" THEN current_workflow.nodes ELSE a.nodes,
                  connections |-> IF a.connections = "absent"
                                  THEN current_workflow.connections ELSE a.connections,
                  settings |-> IF a.settings = "absent"
                               THEN current_workflow.settings ELSE a.settings,
                  tags |-> IF a.tags = "absent" THEN current_workflow.tags ELSE a.tags,
                  active |-> IF a.active = "absent"
                             THEN current_workflow.active ELSE a.active = "true"]
         IN  Await(update_workflow(id, workflow_data), "update_workflow")
    ELSE End(Returned(v))

\* the id every call of the model addresses
TheId == "1"

\* method m of the Remote Client (or the update tool), from its entry
ClientStart(m, a) ==
    CASE m = "activate_workflow" -> activate_workflow_start(TheId)
      [] m = "deactivate_workflow" -> deactivate_workflow_start(TheId)
      [] m = "health_check" -> health_check_start
      [] m = "update_workflow" -> UpdateWorkflowTool_start(a, TheId)
      [] m = "list_workflows" -> list_workflows_start
      [] m = "get_workflow" -> Await(get_workflow(TheId), "get_workflow")
      [] m = "execute_workflow" -> execute_workflow_start(TheId)

\* variant: the method goes on with what the failed request left behind
ClientResume_past_failure(m, st, a, o) ==
    IF m = "health_check" THEN health_check_resume(o)
    ELSE CASE m = "activate_workflow" -> activate_workflow_resume(st, TheId, o.value)
           [] m = "deactivate_workflow" -> deactivate_workflow_resume(st, TheId, o.value)
           [] m = "update_workflow" -> UpdateWorkflowTool_resume(st, a, TheId, o.value)
           [] m = "list_workflows" -> list_workflows_resume(o.value)
           [] m = "get_workflow" -> End(Returned(o.value))
           [] m = "execute_workflow" -> End(Returned(o.value))

\* method m from the await st, given how the awaited _request call ended
ClientResume(m, st, a, o) ==
    IF m = "health_check" THEN health_check_resume(o)
    ELSE IF ~o.ok THEN End(Thrown(o.exc))
    ELSE CASE m = "activate_workflow" -> activate_workflow_resume(st, TheId, o.value)
           [] m = "deactivate_workflow" -> deactivate_workflow_resume(st, TheId, o.value)
           [] m = "update_workflow" -> UpdateWorkflowTool_resume(st, a, TheId, o.value)
           [] m = "list_workflows" -> list_workflows_resume(o.value)
           [] m = "get_workflow" -> End(Returned(o.value))
           [] m = "execute_workflow" -> End(Returned(o.value))

\* an entry of the log: a request of caller "by" (its method, the stage of the
\* method that sent it, whether it succeeded, the body sent by a PUT or
\* returned by a GET, the arguments of the update tool) or a write of another
\* client (by = 0), with the request, its answer and the store
\* before and after; ends tells that the request was the last of its call
Entry(kind, by, method, st, ok, body, before, after) ==
    [kind |-> kind, by |-> by, method |-> method, stage |-> st, arg |-> NoUpdate,
     req |-> NoClientReq, answer |-> NoAnswer,
     ok |-> ok, body |-> body, before |-> before, after |-> after, ends |-> FALSE]

\* calls started so far: those that ended, and those in flight
Started ==
    Cardinality({i \in 1..Len(log) : log[i].kind # "write" /\ log[i].ends})
    + Cardinality({p \in Callers : ops[p].pc = "await"})
Writes == Cardinality({i \in 1..Len(log) : log[i].kind = "write"})

\* the coroutine of caller p suspends in its next _request, or ends
Proceed(p, m, a, step) ==
    ops' = [ops EXCEPT ![p] =
              IF step.kind = "call"
              THEN [method |-> m, pc |-> "await", stage |-> step.stage, arg |-> a,
                    req |-> step.req, attempt |-> 1, out |-> Returned(NoWorkflow)]
              ELSE [method |-> m, pc |-> "done", stage |-> "", arg |-> a,
                    req |-> NoClientReq, attempt |-> 0, out |-> step.out]]

\* caller p, having taken the result of its previous call, calls method m
Begin(p, m, a) ==
    /\ ops[p].pc \in {"idle", "done"}
    /\ Started < MaxOps
    /\ Proceed(p, m, a, ClientStart(m, a))
    /\ UNCHANGED <<store, log>>

\* one HTTP attempt of the _request call caller p is suspended in: the upstream
\* serves it (ans is its answer) or it fails; then tenacity's decision and the
\* resumption of the method
ClientAttempt(p, ans) ==
    LET op == ops[p]
        served == ans = Served_answer(store, op.req)
        o == request_attempt(ans)
        again == ~o.ok /\ retry_if_exception_type(o.exc)
        final == IF again THEN Raised("RetryError") ELSE o
        body == IF op.req.method = "PUT" THEN op.req.body
                ELSE IF o.ok /\ op.req.endpoint # "/workflows" THEN o.value
                ELSE NoWorkflow
    IN  /\ op.pc = "await"
        /\ store' = IF served THEN Served(store, op.req) ELSE store
        /\ IF again /\ op.attempt < StopAfterAttempt
           THEN ops' = [ops EXCEPT ![p].attempt = op.attempt + 1]
           ELSE Proceed(p, op.method, op.arg, ClientResume(op.method, op.stage, op.arg, final))
        /\ log' = Append(log, [Entry(op.req.method, p, op.method, op.stage, o.ok, body,
                                     store, store')
                               EXCEPT !.arg = op.arg, !.req = op.req, !.answer = ans,
                                      !.ends = ops'[p].pc = "done"])

\* another client of the upstream rewrites field f of the workflow, or flips
\* its active flag
ExternalWrite(f) ==
    /\ store # <<>>
    /\ Writes < MaxWrites
    /\ store' = [store EXCEPT ![1] =
                    IF f = "active" THEN [@ EXCEPT !.active = ~@]
                    ELSE [@ EXCEPT ![f] = Revised(f)]]
    /\ store' # store
    /\ log' = Append(log, Entry("write", 0, "", "", TRUE, store'[1], store, store'))
    /\ UNCHANGED ops

\* the fields other clients write
WrittenFields == {"name", "tags", "active"}

InitClient ==
    /\ InitTool
    /\ store \in {<<>>} \cup {<<Original(TheId, act)>> : act \in BOOLEAN}
    /\ ops = NoCalls
    /\ log = <<>>
    /\ api = NoRequest
    /\ srv = NoServer

ClientMethods == {"activate_workflow", "deactivate_workflow"}

\* one caller makes its calls one after the other while other clients write
NextClient ==
    \/ (\E m \in ClientMethods : Begin(1, m, NoUpdate)) /\ UNCHANGED <<toolvars, api, srv>>
    \/ (\E ans \in {Served_answer(store, ops[1].req)} \cup Failures :
            ClientAttempt(1, ans)) /\ UNCHANGED <<toolvars, api, srv>>
    \/ (\E f \in WrittenFields : ExternalWrite(f)) /\ UNCHANGED <<toolvars, api, srv>>

SpecClient == InitClient /\ [][NextClient]_vars

\* two callers, one activating and one deactivating the same workflow, each
\* once and with no other writer: their requests are answered in any order
NextRace ==
    \/ (ops[1].pc = "idle" /\ Begin(1, "activate_workflow", NoUpdate))
            /\ UNCHANGED <<toolvars, api, srv>>
    \/ (ops[2].pc = "idle" /\ Begin(2, "deactivate_workflow", NoUpdate))
            /\ UNCHANGED <<toolvars, api, srv>>
    \/ (\E p \in Callers : \E ans \in {Served_answer(store, ops[p].req)} \cup Failures :
            ClientAttempt(p, ans)) /\ UNCHANGED <<toolvars, api, srv>>

SpecRace == InitClient /\ [][NextRace]_vars

\* the answers a probe can get that are not the list asked for: a network
\* fault, a timeout, an error status, a page that is not JSON
ProbeFailures ==
    {Answer(f, 0, "empty", EmptyResult) : f \in {"NetworkError", "TimeoutException"}}
    \cup {Answer("none", st, "empty", EmptyResult) : st \in ErrorStatuses}
    \cup {Answer("none", 200, "text", EmptyResult)}

\* one caller probes the upstream
NextProbe ==
    \/ Begin(1, "health_check", NoUpdate) /\ UNCHANGED <<toolvars, api, srv>>
    \/ (\E ans \in {Served_answer(store, ops[1].req)} \cup ProbeFailures :
            ClientAttempt(1, ans)) /\ UNCHANGED <<toolvars, api, srv>>

SpecProbe == InitClient /\ [][NextProbe]_vars

\* the value a caller of the update tool supplies for a definition field
Supplied(f) ==
    [name |-> "name3", nodes |-> "nodes3", connections |-> "connections3",
     settings |-> "settings3", tags |-> "tags3"][f]

\* the argument maps tried for the update tool: nothing supplied, the name,
\* the tags with the active flag, every field
UpdateArgs ==
    {NoUpdate,
     [NoUpdate EXCEPT !.name = Supplied("name")],
     [NoUpdate EXCEPT !.tags = Supplied("tags"), !.active = "true"],
     [f \in DOMAIN NoUpdate |-> IF f = "active" THEN "false" ELSE Supplied(f)]}

\* one caller of the update tool while another client retags the workflow
NextUpdate ==
    \/ (\E a \in UpdateArgs : Begin(1, "update_workflow", a)) /\ UNCHANGED <<toolvars, api, srv>>
    \/ (\E ans \in {Served_answer(store, ops[1].req)} \cup Failures :
            ClientAttempt(1, ans)) /\ UNCHANGED <<toolvars, api, srv>>
    \/ ExternalWrite("tags") /\ UNCHANGED <<toolvars, api, srv>>

SpecUpdate == InitClient /\ [][NextUpdate]_vars

----------------------------------------------------------------------------
(* The list tool against an upstream that filters its workflows *)

\* the upstream holds workflows "1", "2", ... with any activation
WorkflowIds == [i \in 1..4 |-> <<"1", "2", "3", "4">>[i]]
Stores ==
    UNION {{[i \in 1..n |-> Original(WorkflowIds[i], act[i])] : act \in [1..n -> BOOLEAN]} :
              n \in 0..MaxWorkflows}

\* GET /workflows with the query parameter active: the stored workflows that
\* pass the filter, in the upstream's order
Listed(st, active) ==
    SelectSeq(st, LAMBDA w : active = "" \/ w.active = (active = "true"))

\* the upstream answers the list request in either of its two body shapes
ListAnswers(st, rq) ==
    {Answer("none", 200, "json", JArray(Listed(st, rq.active))),
     Answer("none", 200, "json", JObject("array", Listed(st, rq.active), "absent"))}

InitList ==
    /\ InitTool
    /\ store \in Stores
    /\ ops = NoCalls
    /\ log = <<>>
    /\ api = NoRequest
    /\ srv = NoServer

NextList ==
    \/ pc = "idle" /\ (\E a \in ArgSpace("list_workflows") : Invoke("list_workflows", a))
                   /\ UNCHANGED <<store, ops, log, api, srv>>
    \/ pc = "await" /\ (\E ans \in ListAnswers(store, req) \cup Failures : HttpAttempt(ans))
                    /\ UNCHANGED <<store, ops, log, api, srv>>
    \/ Finish /\ UNCHANGED <<store, ops, log, api, srv>>

SpecList == InitList /\ [][NextList]_vars

----------------------------------------------------------------------------
(* Management API: one request at a time, its handler using a client of its own *)

\* the endpoints behind Depends(verify_portal_token), and the two without
Protected == {"status", "workflows_stats", "workflows_list", "workflow_get",
              "workflow_activate", "workflow_deactivate", "workflow_execute",
              "config_read", "config_write"}
Open == {"root", "health"}

\* the Remote Client method a handler awaits ("": the handler creates no client)
ClientMethodOf(e) ==
    CASE e \in {"health", "status"} -> "health_check"
      [] e \in {"workflows_stats", "workflows_list"} -> "list_workflows"
      [] e = "workflow_get" -> "get_workflow"
      [] e = "workflow_activate" -> "activate_workflow"
      [] e = "workflow_deactivate" -> "deactivate_workflow"
      [] e = "workflow_execute" -> "execute_workflow"
      [] OTHER -> ""

\* an error answer whose JSON body carries a "message"
ErrorAnswer(st, msg) ==
    [fault |-> "none", status |-> st, content |-> "json", json |-> EmptyResult,
     message |-> msg]

\* str(e) of the HTTPStatusError of raise_for_status(): it quotes the status
\* line of the answer
StatusErrorText(st) ==
    IF st = 404 THEN <<"4", "0", "4", " ", "N", "o", "t", " ", "F", "o", "u", "n", "d">>
    ELSE <<"E", "r", "r", "o", "r">>

\* _handle_response: error_data.get("message", str(e)), str(e) also when the
\* body is not JSON
error_msg(ans) ==
    IF "message" \in DOMAIN ans THEN ans.message ELSE StatusErrorText(ans.status)

\* str() of the exception the client raised for the answer
ExceptionText(exc, ans) ==
    CASE exc = "N8NAuthError" -> <<"A", "u", "t", "h", "e", "n", "t", "i", "c", "a", "t", "i", "o", "n", " ", "f", "a", "i", "l", "e", "d", ":", " ">> \o error_msg(ans)
      [] exc = "N8NNotFoundError" -> <<"R", "e", "s", "o", "u", "r", "c", "e", " ", "n", "o", "t", " ", "f", "o", "u", "n", "d", ":", " ">> \o error_msg(ans)
      [] exc = "N8NValidationError" -> <<"V", "a", "l", "i", "d", "a", "t", "i", "o", "n", " ", "e", "r", "r", "o", "r", ":", " ">> \o error_msg(ans)
      [] exc = "N8NError" -> <<"n", "8", "n", " ", "A", "P", "I", " ", "e", "r", "r", "o", "r", ":", " ">> \o error_msg(ans)
      [] exc = "N8NConnectionError" -> <<"F", "a", "i", "l", "e", "d", " ", "t", "o", " ", "c", "o", "n", "n", "e", "c", "t", " ", "t", "o", " ", "n", "8", "n">>
      [] OTHER -> <<>>

\* the messages an upstream puts in the body of an error answer
UpstreamMessages == {<<"b", "a", "d">>, <<"N", "o", "t", " ", "f", "o", "u", "n", "d">>}

\* the status a handler answers with once its client call ended with out,
\* text being str(e) of the failure: the monitoring endpoints catch every
\* exception; the others turn an N8NError into an HTTPException (404 for
\* get_workflow when "not found" is in str(e).lower(), 500 otherwise) and let
\* anything else reach the framework, which answers 500
HandlerStatus(e, out, text) ==
    IF e \in {"health", "status"} THEN 200
    ELSE IF out.ok THEN 200
    ELSE IF e = "workflow_get" /\ out.exc \in N8NErrors
            /\ In(<<"n", "o", "t", " ", "f", "o", "u", "n", "d">>, Lower(text))
    THEN 404
    ELSE 500

\* the Authorization headers tried
Headers ==
    {NoHeader, Header(<<>>), Header(<<"InvalidFormat">>), Header(<<"Bearer">>),
     Header(<<"Bearer", "short">>), Header(<<"Bearer", "123456789">>),
     Header(<<"Basic", "1234567890">>), Header(<<"Bearer", "abc", "defgh">>),
     Header(<<"Bearer", "1234567890">>), Header(<<"bearer", "1234567890">>),
     Header(<<"Bearer", "abcd", "efghi">>)}

\* a request arrives: the dependency runs, then the handler up to its first
\* await (or to its end, for the handlers that await nothing)
Receive(e, h) ==
    /\ api.pc = "idle"
    /\ IF e \in Protected /\ ~verify_portal_token(h)
       THEN /\ api' = [NoRequest EXCEPT !.pc = "done", !.endpoint = e, !.authorization = h,
                                        !.status = 401]
            /\ UNCHANGED <<store, ops, log>>
       ELSE IF ClientMethodOf(e) = ""
       THEN /\ api' = [NoRequest EXCEPT !.pc = "done", !.endpoint = e, !.authorization = h,
                                        !.status = IF e = "config_write" THEN 501 ELSE 200]
            /\ UNCHANGED <<store, ops, log>>
       ELSE /\ api' = [NoRequest EXCEPT !.pc = "running", !.endpoint = e,
                                        !.authorization = h, !.created = 1]
            /\ Begin(1, ClientMethodOf(e), NoUpdate)

\* variant: the client is closed at the end of the try block, which a failure
\* does not reach
handler_close_in_try(e, out) == IF out.ok THEN 1 ELSE 0

\* how many times the handler calls client.close() once its client call ended
\* with out: the finally clause runs however the try block was left
handler_finally(e, out) == 1

\* what the upstream answers to a request of the handler's client: it serves
\* it, or fails, or answers with an error message or a page that is not JSON
ApiAnswers(st, rq) ==
    {Served_answer(st, rq)} \cup Failures
    \cup {ErrorAnswer(500, msg) : msg \in UpstreamMessages}
    \cup {Answer("none", 200, "text", EmptyResult)}

\* an HTTP attempt of the client call the handler awaits; when the call ends
\* the handler answers and its finally clause closes the client
ApiAttempt(ans) ==
    /\ api.pc = "running"
    /\ ClientAttempt(1, ans)
    /\ api' = IF ops'[1].pc = "done"
              THEN [api EXCEPT !.pc = "done",
                               !.status = HandlerStatus(api.endpoint, ops'[1].out,
                                                        ExceptionText(ops'[1].out.exc, ans)),
                               !.closed = @ + handler_finally(api.endpoint, ops'[1].out)]
              ELSE api

\* the response has been sent; the handler and its client are gone
Answered ==
    /\ api.pc = "done"
    /\ api' = NoRequest
    /\ ops' = NoCalls
    /\ log' = <<>>
    /\ UNCHANGED store

NextApi ==
    \/ (\E e \in Protected \cup Open, h \in Headers : Receive(e, h)) /\ UNCHANGED <<toolvars, srv>>
    \/ (\E ans \in ApiAnswers(store, ops[1].req) : ApiAttempt(ans)) /\ UNCHANGED <<toolvars, srv>>
    \/ Answered /\ UNCHANGED <<toolvars, srv>>

SpecApi == InitClient /\ [][NextApi]_vars

----------------------------------------------------------------------------
(* The server process: MonolietMCPServer.run, its two modes and its shutdown *)

\* MCP_SERVER_MODE: "http", or anything else for stdio
Modes == {"stdio", "http"}

\* MonolietMCPServer.shutdown: the client, if one was created, is closed
shutdown(s) == [s EXCEPT !.client = IF @ = "none" THEN "none" ELSE "closed"]

\* run() is called: initialize() creates the client and awaits the probe
Run(mode) ==
    /\ srv.pc = "new"
    /\ srv' = [srv EXCEPT !.pc = "initializing", !.mode = mode, !.client = "open"]
    /\ Begin(1, "health_check", NoUpdate)

\* an HTTP attempt of the startup probe.  When the probe succeeds the tools
\* are registered, the signal handlers installed and the tasks of the mode
\* started; when it fails initialize() raises and the finally clause of run()
\* calls shutdown()
InitAttempt(ans) ==
    /\ srv.pc = "initializing"
    /\ ClientAttempt(1, ans)
    /\ srv' = IF ops'[1].pc # "done" THEN srv
              ELSE IF ops'[1].out.ok
              THEN [srv EXCEPT !.pc = "serving", !.management = "running",
                               !.stdio = IF srv.mode = "stdio" THEN "running" ELSE "",
                               !.http = IF srv.mode = "http" THEN "waiting" ELSE ""]
              ELSE [shutdown(srv) EXCEPT !.pc = "ended", !.raised = TRUE]

\* the MCP side is serving
Serving ==
    /\ srv.pc = "serving"
    /\ srv.stdio = "running" \/ srv.http = "waiting"

\* a tool call arrives (call_tool, or POST /call) and its tool calls the client
ServeCall(m) ==
    /\ Serving
    /\ Begin(1, m, NoUpdate)
    /\ UNCHANGED srv

\* an HTTP attempt of the call a tool is suspended in
ServeAttempt(ans) ==
    /\ Serving
    /\ ClientAttempt(1, ans)
    /\ UNCHANGED srv

\* SIGTERM or SIGINT arrives: signal_handler sets the shutdown event
Signal ==
    /\ srv.pc = "serving"
    /\ srv' = [srv EXCEPT !.event = TRUE, !.signalled = TRUE]
    /\ UNCHANGED <<store, ops, log>>

\* run_http: the shutdown event it waits for is set, the runner is cleaned up
\* and run_http returns
HttpStops ==
    /\ srv.pc = "serving"
    /\ srv.http = "waiting" /\ srv.event
    /\ srv' = [srv EXCEPT !.http = "ended"]
    /\ UNCHANGED <<store, ops, log>>

\* run_management_api: server.serve() returns, which the HTTP server of the
\* management API does once the process was signalled
ManagementExits ==
    /\ srv.pc = "serving"
    /\ srv.management = "running" /\ srv.signalled
    /\ srv' = [srv EXCEPT !.management = "ended"]
    /\ UNCHANGED <<store, ops, log>>

\* http mode: asyncio.gather returns when both servers returned, and the
\* finally clause of run() calls shutdown()
GatherReturns ==
    /\ srv.pc = "serving"
    /\ srv.http = "ended" /\ srv.management = "ended"
    /\ srv' = [shutdown(srv) EXCEPT !.pc = "ended"]
    /\ UNCHANGED <<store, ops, log>>

\* stdio mode: run_stdio returns because the input stream ended, or raises;
\* its finally clause cancels the management task and the one of run() calls
\* shutdown()
StdioExits(failed) ==
    /\ srv.pc = "serving"
    /\ srv.stdio = "running"
    /\ srv' = [shutdown(srv) EXCEPT !.pc = "ended",
                                    !.stdio = IF failed THEN "failed" ELSE "ended",
                                    !.management = IF @ = "running" THEN "cancelled" ELSE @,
                                    !.raised = failed]
    /\ UNCHANGED <<store, ops, log>>

\* every step run() takes by itself once the event it waits for has happened
ServerStep == HttpStops \/ ManagementExits \/ GatherReturns

NextServer ==
    \/ (\E mode \in Modes : Run(mode)) /\ UNCHANGED <<toolvars, api>>
    \/ (\E ans \in {Served_answer(store, ops[1].req)} \cup ProbeFailures : InitAttempt(ans))
            /\ UNCHANGED <<toolvars, api>>
    \/ ServeCall("activate_workflow") /\ UNCHANGED <<toolvars, api>>
    \/ (\E ans \in {Served_answer(store, ops[1].req)} \cup Failures : ServeAttempt(ans))
            /\ UNCHANGED <<toolvars, api>>
    \/ Signal /\ UNCHANGED <<toolvars, api>>
    \/ HttpStops /\ UNCHANGED <<toolvars, api>>
    \/ ManagementExits /\ UNCHANGED <<toolvars, api>>
    \/ GatherReturns /\ UNCHANGED <<toolvars, api>>
    \/ (\E failed \in BOOLEAN : StdioExits(failed)) /\ UNCHANGED <<toolvars, api>>

\* the event loop runs every coroutine that can run: a step of run() that is
\* enabled is taken, and the startup probe is answered
SpecServer ==
    /\ InitClient
    /\ [][NextServer]_vars
    /\ WF_vars(ServerStep /\ UNCHANGED <<toolvars, api>>)
    /\ WF_vars((\E ans \in {Served_answer(store, ops[1].req)} \cup ProbeFailures :
                    InitAttempt(ans)) /\ UNCHANGED <<toolvars, api>>)

----------------------------------------------------------------------------
(* Properties *)

ErrorTypes == {"validation_error", "n8n_error", "internal_error"}

\* run ended with an error envelope of the given type
ErrorEnvelope(type) ==
    pc = "done" /\ ~result.escaped /\ ~result.success /\ result.error.type = type

\* C1: whatever execute does (returns, raises a Remote Client failure, raises a
\* validation failure, raises anything else), run returns an envelope and never
\* raises: success with data = the execute result and no error, or failure with
\* no data and an error whose type is one of the three kinds.
C1_RunReturnsEnvelope ==
    pc = "done" =>
        /\ ~result.escaped
        /\ \/ /\ outcome.kind = "return"
              /\ result.success /\ result.hasData /\ result.data = outcome.data
              /\ ~result.hasError
           \/ /\ outcome.kind = "raise"
              /\ ~result.success /\ ~result.hasData
              /\ result.hasError /\ result.error.type \in ErrorTypes

\* an unexpected failure after one remote call became an internal_error envelope
C1_Witness ==
    /\ pc = "done" /\ outcome.kind = "raise" /\ outcome.exc = "AttributeError"
    /\ Len(calls) = 1
    /\ ~result.success /\ result.hasError /\ result.error.type = "internal_error"

\* C2: a Remote Client failure is reported as n8n_error, a locally signalled
\* argument-validation failure as validation_error, and every other failure as
\* internal_error.
C2_ErrorTypeByFailureClass ==
    (pc = "done" /\ outcome.kind = "raise") =>
        result.error.type =
            IF outcome.exc \in N8NErrors THEN "n8n_error"
            ELSE IF outcome.exc = "ValueError" THEN "validation_error"
            ELSE "internal_error"

\* C3: delete_workflow with confirm absent or anything other than the boolean
\* true issues no remote call and ends with a validation_error envelope.
C3_NoDeleteWithoutConfirmTrue ==
    (tool = "delete_workflow" /\ args.confirm # PyBool(TRUE)) =>
        /\ pc # "await"
        /\ calls = <<>>
        /\ pc = "done" => ErrorEnvelope("validation_error")

OutOfRange(limit, lo, hi) == limit.ty = "int" /\ (limit.n < lo \/ limit.n > hi)
InRange(limit, lo, hi) == limit.ty = "int" /\ lo <= limit.n /\ limit.n <= hi

\* C4: an integer limit outside [1,250] (get_executions) or [10,1000]
\* (get_workflow_health) gives a validation_error envelope and no remote call;
\* with a limit inside the range the limit check lets the invocation go on to
\* its first remote call.
C4_LimitRange ==
    /\ (tool = "get_executions" /\ OutOfRange(args.limit, 1, 250)) =>
            /\ pc # "await" /\ calls = <<>>
            /\ pc = "done" => ErrorEnvelope("validation_error")
    /\ (tool = "get_workflow_health" /\ OutOfRange(args.limit, 10, 1000)) =>
            /\ pc # "await" /\ calls = <<>>
            /\ pc = "done" => ErrorEnvelope("validation_error")
    /\ (pc = "done" /\ tool = "get_executions" /\ InRange(args.limit, 1, 250)) =>
            Len(calls) >= 1
    /\ (pc = "done" /\ tool = "get_workflow_health" /\ InRange(args.limit, 10, 1000)
            /\ args.workflow_id.ty # "absent") =>
            Len(calls) >= 1

\* get_executions refused limit 251 before any remote call
C4_Witness ==
    /\ tool = "get_executions" /\ args.limit = PyInt(251)
    /\ ErrorEnvelope("validation_error") /\ calls = <<>>

\* the health report of a finished, successful get_workflow_health invocation
HealthReported == pc = "done" /\ tool = "get_workflow_health" /\ result.success

C6_FivePercentIsGood ==
    (/\ HealthReported
     /\ result.data.statistics.total_executions = 100
     /\ result.data.statistics.success_count = 95
     /\ result.data.statistics.error_count = 5) =>
        /\ result.data.health_status = "good"
        /\ result.data.recommendations # <<>>

\* a _request call of this invocation has finished; last describes it
CallFinished == last.attempts > 0

\* C7: an attempt that fails at network level is followed by another attempt
\* until three were made, so a call ends on a network-level failure only after
\* its third attempt.
C7_NetworkFailureIsRetried ==
    (CallFinished /\ last.answer.fault # "none") => last.attempts = StopAfterAttempt

\* the i-th HTTP request of the invocation was answered with a non-2xx status
HttpError(i) == calls[i].fault = "none" /\ ~IsSuccess(calls[i].status)

\* C8: a request answered with a non-2xx status is the only HTTP request of its
\* _request call (it is a first attempt and no further attempt follows it), and
\* the call ends with the typed failure.
C8_HttpErrorNotRetried ==
    \A i \in 1..Len(calls) :
        HttpError(i) =>
            /\ calls[i].attempt = 1
            /\ IF i < Len(calls)
               THEN calls[i + 1].attempt = 1
               ELSE /\ attempt <= 1
                    /\ CallFinished /\ last.attempts = 1
                    /\ ~last.out.ok
                    /\ last.out.exc \in N8NErrors \ {"N8NConnectionError"}

\* a 404 was answered once and the call ended with the not-found failure
C8_Witness ==
    /\ pc = "done" /\ Len(calls) = 1 /\ HttpError(1) /\ calls[1].status = 404
    /\ last.attempts = 1 /\ last.out.exc = "N8NNotFoundError"
    /\ ErrorEnvelope("n8n_error")

\* C9: the result of a request is determined by the transport's answer: network
\* fault -> N8NConnectionError; 401/403 -> N8NAuthError; 404 -> N8NNotFoundError;
\* 400 -> N8NValidationError; other non-2xx -> N8NError; 2xx with status 204 or
\* an empty body -> the empty result; any other 2xx -> the parsed body.
C9_OutcomeByAnswer ==
    CallFinished =>
        LET a == last.answer
            o == last.out
        IN  IF a.fault # "none" THEN o = Raised("N8NConnectionError")
            ELSE IF a.status \in {401, 403} THEN o = Raised("N8NAuthError")
            ELSE IF a.status = 404 THEN o = Raised("N8NNotFoundError")
            ELSE IF a.status = 400 THEN o = Raised("N8NValidationError")
            ELSE IF ~IsSuccess(a.status) THEN o = Raised("N8NError")
            ELSE IF a.status = 204 \/ a.content = "empty" THEN o = Ok(EmptyResult)
            ELSE o.ok /\ o.value = a.json

\* the rows the list tools make of a sequence L
WorkflowRows(L) == [i \in 1..Len(L) |-> [active |-> L[i].active]]
ExecutionRows(L) ==
    [i \in 1..Len(L) |->
        [stopped_at |-> L[i].stoppedAt, finished |-> L[i].finished,
         status |-> IF L[i].stoppedAt THEN "error"
                    ELSE IF L[i].finished THEN "success" ELSE "running"]]

\* the parsed body of the finished call carries the sequence L, as a bare array
\* or as the "data" of an object
CarriesList(v) ==
    v.shape = "array" \/ (v.shape = "object" /\ v.data = "array")
\* the other shapes: an object without "data" (the empty result too), a scalar
OtherShape(v) ==
    (v.shape = "object" /\ v.data = "absent") \/ v.shape = "scalar"

SameLetter(c, d) ==
    \/ c = d
    \/ {c, d} = {"a", "A"}
    \/ {c, d} = {"b", "B"}

\* q occurs in text as a contiguous run of characters, case ignored
ContainsIgnoringCase(q, text) ==
    \E i \in 0..(Len(text) - Len(q)) : \A k \in 1..Len(q) : SameLetter(q[k], text[i + k])

\* w is a hit for q: by its name or by at least one of its tags
IsHit(q, w) ==
    \/ w.hasName /\ ContainsIgnoringCase(q, w.name)
    \/ ~w.hasName /\ q = <<>>
    \/ w.hasTags /\ \E t \in 1..Len(w.tags) : ContainsIgnoringCase(q, w.tags[t])

Searched == pc = "done" /\ tool = "search_workflows" /\ result.success

\* the list W that list_workflows returned to search_workflows
SearchedList == last.out.value.items

\* C11: search_workflows(q) returns exactly the workflows of the list W that
\* list_workflows returned whose name or at least one tag contains q, case
\* ignored, in W's order; the empty query returns all of W
C11_SearchReturnsHitsInOrder ==
    Searched /\ CarriesList(last.out.value) =>
        LET q == args.query.s
            W == SearchedList
            hits == {i \in 1..Len(W) : IsHit(q, W[i])}
            found == result.data.workflows
        IN  /\ Len(found) = Cardinality(hits)
            /\ result.data.total_matches = Cardinality(hits)
            /\ \A i \in hits :
                   found[Cardinality({j \in hits : j <= i})] = SearchRow(W[i])
            /\ (q = <<>> => Len(found) = Len(W))

\* a mixed-case query finds a workflow by a tag only and skips another one
C11_Witness ==
    /\ Searched
    /\ args.query.s = <<"A">>
    /\ Len(SearchedList) = 2
    /\ Len(result.data.workflows) = 1
    /\ ~ContainsIgnoringCase(<<"A">>, result.data.workflows[1].name)

\* the executions that get_workflow_statistics fetched for the report
FetchedExecutions == last.out.value.items

\* r (in hundredths of a percent) is 100 * k / N rounded to two decimals
IsRoundedRate(r, k, N) ==
    LET d == r * N - 10000 * k
        dist == IF d < 0 THEN -d ELSE d
    IN  /\ 2 * dist <= N
        /\ 2 * dist = N => r % 2 = 0

\* C12: over N fetched executions success_count is the number that finished
\* with no stoppedAt, error_count the number with stoppedAt, and each rate is
\* 100 * count / N rounded to two decimals; with N = 0 the counts and rates
\* are all 0 and nothing is raised.
C12_StatisticsCountsAndRates ==
    (/\ pc = "done" /\ tool = "get_workflow_health"
     /\ last.req.endpoint = "/executions" /\ last.out.ok
     /\ CarriesList(last.out.value)) =>
        LET L == FetchedExecutions
            N == Len(L)
            S == Cardinality({i \in 1..N : L[i].finished /\ ~L[i].stoppedAt})
            E == Cardinality({i \in 1..N : L[i].stoppedAt})
            st == result.data.statistics
        IN  /\ result.success
            /\ st.total_executions = N
            /\ st.success_count = S
            /\ st.error_count = E
            /\ N > 0 => IsRoundedRate(st.success_rate, S, N) /\ IsRoundedRate(st.error_rate, E, N)
            /\ N = 0 => st.success_rate = 0 /\ st.error_rate = 0

\* two successes and one execution that stopped unfinished give 66.67 and 33.33
C12_Witness ==
    /\ HealthReported
    /\ Len(FetchedExecutions) = 3
    /\ \E i \in 1..3 : FetchedExecutions[i] = StoppedShaped
    /\ result.data.statistics.success_count = 2
    /\ result.data.statistics.success_rate = 6667
    /\ result.data.statistics.error_rate = 3333

\* entry j of the log is the served PUT of an activate/deactivate call and
\* entry i is the GET of the same call
PutOfGet(i, j) ==
    /\ i < j
    /\ log[j].kind = "PUT" /\ log[j].ok
    /\ log[j].method \in {"activate_workflow", "deactivate_workflow"}
    /\ log[i].kind = "GET" /\ log[i].ok /\ log[i].by = log[j].by
    /\ \A k \in (i + 1)..(j - 1) : log[k].by # log[j].by

\* the flag a call of the method writes
FlagOf(method) == method = "activate_workflow"

\* C13: whatever another client wrote between the GET and the PUT of an
\* activate/deactivate call, the stored workflow after the PUT is the copy the
\* GET fetched with only active changed: what a write in between changed of
\* the definition is lost.
C13_LastWriteWins ==
    \A i \in 1..Len(log), j \in 1..Len(log) :
        PutOfGet(i, j) =>
            /\ log[j].after = <<[log[i].body EXCEPT !.active = FlagOf(log[j].method)]>>
            /\ \A k \in (i + 1)..(j - 1) :
                   log[k].kind = "write" =>
                       \A f \in DefinitionFields :
                           log[k].after[1][f] # log[k].before[1][f]
                               => log[j].after[1][f] # log[k].after[1][f]

\* another client renamed the workflow between the GET and the PUT of an
\* activation, and the old name is the one stored after the PUT
C13_Witness ==
    \E i \in 1..Len(log), j \in 1..Len(log) :
        /\ PutOfGet(i, j)
        /\ \E k \in (i + 1)..(j - 1) :
               /\ log[k].kind = "write"
               /\ log[k].after[1].name = "name2"
        /\ log[j].before[1].name = "name2"
        /\ log[j].after[1].name = "name1"
        /\ store[1].name = "name1"

\* entries i..i+3 of the log are an activate call and then a deactivate call,
\* both served, with nothing in between
ActivateThenDeactivate(i) ==
    /\ i + 3 <= Len(log)
    /\ \A k \in i..(i + 3) : log[k].ok /\ log[k].kind = (IF (k - i) % 2 = 0 THEN "GET" ELSE "PUT")
    /\ log[i].method = "activate_workflow" /\ log[i + 1].method = "activate_workflow"
    /\ log[i + 2].method = "deactivate_workflow" /\ log[i + 3].method = "deactivate_workflow"

\* C14: activate_workflow followed immediately by deactivate_workflow, with no
\* other writer in between, leaves every field of the stored workflow other
\* than active as it was, and active false.
C14_ActivateDeactivateRoundTrip ==
    \A i \in 1..Len(log) :
        ActivateThenDeactivate(i) =>
            log[i + 3].after = <<[log[i].before[1] EXCEPT !.active = FALSE]>>

\* the round trip was made on a workflow that was active and had been retagged
C14_Witness ==
    \E i \in 1..Len(log) :
        /\ ActivateThenDeactivate(i)
        /\ log[i].before[1].active
        /\ log[i].before[1].tags = "tags2"
        /\ store = log[i + 3].after
        /\ store[1].tags = "tags2" /\ ~store[1].active

\* entry j of the log is the PUT of an update_workflow invocation and entry i
\* is the GET of the same invocation
UpdatePutOfGet(i, j) ==
    /\ i < j
    /\ log[j].kind = "PUT" /\ log[j].method = "update_workflow"
    /\ log[i].kind = "GET" /\ log[i].ok /\ log[i].by = log[j].by
    /\ \A k \in (i + 1)..(j - 1) : log[k].by # log[j].by

\* C15: the update_workflow tool PUTs a definition in which each of name,
\* nodes, connections, settings, tags, active is the caller's value when the
\* key is supplied and the fetched value otherwise; with no writer between its
\* GET and its PUT, every field the caller did not supply keeps its value.
C15_UpdateMergesOverFetched ==
    \A i \in 1..Len(log), j \in 1..Len(log) :
        UpdatePutOfGet(i, j) =>
            LET a == log[j].arg
                fetched == log[i].body
                sent == log[j].body
            IN  /\ DOMAIN sent = DefinitionFields \cup {"active"}
                /\ \A f \in DefinitionFields :
                       sent[f] = (IF a[f] # "absent" THEN a[f] ELSE fetched[f])
                /\ sent.active = (IF a.active # "absent" THEN a.active = "true"
                                  ELSE fetched.active)
                /\ (log[j].ok /\ j = i + 1) =>
                       /\ \A f \in DefinitionFields \cup {"active"} :
                              a[f] = "absent" => log[j].after[1][f] = log[i].before[1][f]
                       /\ log[j].after[1].id = log[i].before[1].id

\* a rename of a workflow that another client had retagged kept the new tags
C15_Witness ==
    \E i \in 1..Len(log) :
        /\ i < Len(log)
        /\ UpdatePutOfGet(i, i + 1)
        /\ log[i + 1].ok
        /\ log[i + 1].arg = [NoUpdate EXCEPT !.name = "name3"]
        /\ log[i].before[1].tags = "tags2"
        /\ store[1].name = "name3" /\ store[1].tags = "tags2"

\* the filter the claim assigns to a status argument
FilterOf(status) ==
    IF status = PyStr("active") THEN "true"
    ELSE IF status = PyStr("inactive") THEN "false"
    ELSE ""

\* the upstream of the end-to-end scenario: workflows 1/2/3, active true/true/false
ScenarioStore == <<Original("1", TRUE), Original("2", TRUE), Original("3", FALSE)>>

ListedByTool == pc = "done" /\ tool = "list_workflows" /\ result.success

\* C16: the list_workflows tool calls the upstream with active=true for
\* status=active, active=false for status=inactive and no filter for all or no
\* status; total_count is the number of workflows that call returned and the
\* status is echoed; over workflows 1/2/3 active true/true/false, status=all
\* gives total_count 3 and status=active gives total_count 2.
C16_ListFilterAndCount ==
    /\ (tool = "list_workflows" /\ calls # <<>>) =>
           /\ Len(calls) = 1
           /\ calls[1].req.method = "GET" /\ calls[1].req.endpoint = "/workflows"
           /\ calls[1].req.active = FilterOf(args.status)
    /\ ListedByTool =>
           /\ result.data.total_count =
                 (IF CarriesList(last.out.value) THEN Len(last.out.value.items) ELSE 0)
           /\ result.data.filter = (IF args.status = Absent THEN "all" ELSE args.status.s)
    /\ (ListedByTool /\ store = ScenarioStore) =>
           /\ args.status = PyStr("all") => result.data.total_count = 3
           /\ args.status = PyStr("active") => result.data.total_count = 2

\* status=active over the scenario's workflows returned the two active ones
C16_Witness ==
    /\ ListedByTool /\ store = ScenarioStore
    /\ args.status = PyStr("active")
    /\ calls[1].req.active = "true"
    /\ result.data.total_count = 2
    /\ result.data.filter = "active"

\* the page of executions that get_executions returned to the tool
ExecutionsPage == IF CarriesList(last.out.value) THEN last.out.value.items ELSE <<>>

ExecutionsReported == pc = "done" /\ tool = "get_executions" /\ result.success

\* the status the claim gives an execution
DerivedStatus(e) ==
    IF e.stoppedAt THEN "error" ELSE IF e.finished THEN "success" ELSE "running"

\* C17: the get_executions tool gives every execution of the returned page one
\* status (error with a stoppedAt, else success when finished, else running),
\* and success_count, error_count and running_count count the executions of
\* the page by status, so their sum is total_count, the length of the page.
C17_ExecutionStatusCounts ==
    ExecutionsReported =>
        LET page == ExecutionsPage
            rows == result.data.executions
            d == result.data
            With(st) == Cardinality({i \in 1..Len(page) : DerivedStatus(page[i]) = st})
        IN  /\ Len(rows) = Len(page)
            /\ \A i \in 1..Len(page) : rows[i].status = DerivedStatus(page[i])
            /\ d.success_count = With("success")
            /\ d.error_count = With("error")
            /\ d.running_count = With("running")
            /\ d.total_count = Len(page)
            /\ d.success_count + d.error_count + d.running_count = d.total_count

\* a page of one failed and one running execution
C17_Witness ==
    /\ ExecutionsReported
    /\ Len(ExecutionsPage) = 2
    /\ result.data.error_count = 1
    /\ result.data.running_count = 1
    /\ result.data.success_count = 0
    /\ \E i \in 1..2 : ExecutionsPage[i].stoppedAt /\ ExecutionsPage[i].finished

\* the request of a health_check call has been answered: entry i of the log
Probed(i) == log[i].method = "health_check"

\* the answer is a 2xx response whose body, if any, is JSON
GoodAnswer(ans) ==
    /\ ans.fault = "none"
    /\ IsSuccess(ans.status)
    /\ ans.status = 204 \/ ans.content \in {"empty", "json"}

\* C18: health_check issues one list-workflows request with limit 1; when the
\* request succeeds the result has status "healthy", and when it fails for any
\* reason the caller gets N8NConnectionError and no other error.
C18_ProbeFailsAsConnectionError ==
    /\ \A p \in Callers :
           (ops[p].method = "health_check" /\ ops[p].pc = "await") =>
               /\ ops[p].req.method = "GET" /\ ops[p].req.endpoint = "/workflows"
               /\ ops[p].req.limit = 1
    /\ \A i \in 1..Len(log) :
           Probed(i) => log[i].ends /\ log[i].req.limit = 1 /\ log[i].kind = "GET"
    /\ \A p \in Callers :
           (ops[p].method = "health_check" /\ ops[p].pc = "done") =>
               LET ans == log[Len(log)].answer
               IN  IF GoodAnswer(ans)
                   THEN ops[p].out.ok /\ ops[p].out.status = "healthy"
                   ELSE ~ops[p].out.ok /\ ops[p].out.exc = "N8NConnectionError"

\* a probe refused with 401 reached its caller as N8NConnectionError
C18_Witness ==
    /\ ops[1].method = "health_check" /\ ops[1].pc = "done"
    /\ log[Len(log)].answer.status = 401
    /\ ops[1].out.exc = "N8NConnectionError"

\* the messages other than the fallback, and when each fires
FiredMessages(error_rate, total_executions, is_active) ==
    {m \in {"high", "moderate", "none", "clean"} :
        \/ m = "high" /\ error_rate > 2000
        \/ m = "moderate" /\ error_rate > 500 /\ error_rate <= 2000
        \/ m = "none" /\ total_executions = 0
        \/ m = "clean" /\ total_executions > 0 /\ error_rate = 0}

\* C19: the recommendations of get_workflow_health are never empty; the
\* fallback message is among them exactly when no other message fired (error
\* rate above 20, above 5, no executions, executions without errors), and then
\* it is the only one.
C19_FallbackIffNothingFired ==
    HealthReported =>
        LET st == result.data.statistics
            recs == result.data.recommendations
            fired == FiredMessages(st.error_rate, st.total_executions, result.data.is_active)
            fallback == \E i \in 1..Len(recs) : recs[i] = FallbackMessage
        IN  /\ recs # <<>>
            /\ fallback <=> (fired = {})
            /\ fallback => recs = <<FallbackMessage>>
            /\ ~fallback => Len(recs) = Cardinality(fired)

\* an error rate of exactly 5.0 fires no message: only the fallback is given
C19_Witness ==
    /\ HealthReported
    /\ result.data.statistics.error_rate = 500
    /\ result.data.statistics.total_executions = 100
    /\ result.data.recommendations = <<FallbackMessage>>

\* the three ways the claim names in which a request carries no valid token
MissingHeader(h) == ~h.present
NotBearerForm(h) ==
    h.present /\ (Len(h.words) < 2 \/ h.words[1] \notin {"Bearer", "bearer", "BEARER"})
ShortToken(h) == h.present /\ Len(h.words) >= 2 /\ JoinedLen(Tail(h.words)) < 10

Authenticated == api.pc = "done" /\ verify_portal_token(api.authorization)

\* the endpoints that address one workflow
WorkflowEndpoints == {"workflow_get", "workflow_activate", "workflow_deactivate",
                      "workflow_execute"}

\* C21: an authenticated request that addresses a workflow answers 404 when the
\* Remote Client failed with not-found and 500 when it failed otherwise, and
\* the configuration-write endpoint answers 501.
C21_FailureTranslation ==
    Authenticated =>
        /\ (api.endpoint \in WorkflowEndpoints /\ ~ops[1].out.ok /\ ops[1].out.exc \in N8NErrors)
               => api.status = IF ops[1].out.exc = "N8NNotFoundError" THEN 404 ELSE 500
        /\ api.endpoint = "config_write" => api.status = 501

\* C22: the client a management handler created is closed exactly once when
\* the handler has answered, however its client call ended, and is not closed
\* before that.
C22_ClientClosedOnce ==
    /\ api.closed <= api.created
    /\ api.pc = "done" => api.closed = api.created
    /\ api.pc = "running" => api.created = 1 /\ api.closed = 0

\* a handler whose client call ended with a failure that is not an N8NError
\* has closed its client
C22_Witness ==
    /\ api.pc = "done"
    /\ api.endpoint = "workflow_get"
    /\ ~ops[1].out.ok /\ ops[1].out.exc = "JSONDecodeError"
    /\ api.status = 500
    /\ api.created = 1 /\ api.closed = 1

\* C23: once a shutdown signal was received the server leaves its serving loop
\* and closes the client's connection, in either mode; and whenever run() has
\* ended, a failed initialization included, the connection is not open.
C23_SignalLeadsToShutdown ==
    /\ [](srv.pc = "ended" => srv.client # "open")
    /\ (srv.signalled ~> (srv.pc = "ended" /\ srv.client = "closed"))

\* where a name stands in a list of names
IndexIn(names, k) == CHOOSE i \in 1..Len(names) : names[i] = k

\* the names the delete tool requires
DeleteRequired == <<"workflow_id", "confirm">>

\* C24: the required-argument check fails with a validation failure whose
\* message names every required name that is not a key of the argument map,
\* each once and in the order of the required list, and does not fail when
\* every required name is a key.
C24_RequiredArgsAllNamed ==
    (pc = "done" /\ tool = "delete_workflow") =>
        LET f == required_args_failure(args, DeleteRequired)
            absent == {k \in {DeleteRequired[i] : i \in 1..Len(DeleteRequired)} :
                           args[k].ty = "absent"}
        IN  /\ f.raised <=> absent # {}
            /\ f.raised => f.exc = "ValueError" /\ f.text = "Missing required arguments: "
            /\ {f.joined[i] : i \in 1..Len(f.joined)} = absent
            /\ Len(f.joined) = Cardinality(absent)
            /\ \A i, j \in 1..Len(f.joined) :
                   i < j => IndexIn(DeleteRequired, f.joined[i]) < IndexIn(DeleteRequired, f.joined[j])
            /\ f.raised => ErrorEnvelope("validation_error") /\ calls = <<>>

\* a delete invocation without workflow_id and without confirm has failed, and
\* the failure names both
C24_Witness ==
    /\ pc = "done" /\ tool = "delete_workflow"
    /\ args.workflow_id.ty = "absent" /\ args.confirm.ty = "absent"
    /\ required_args_failure(args, DeleteRequired).joined = <<"workflow_id", "confirm">>
    /\ ErrorEnvelope("validation_error")

\* entry j of the log is a request of an activate/deactivate call
OfToggle(j) ==
    log[j].by # 0 /\ log[j].method \in {"activate_workflow", "deactivate_workflow"}

\* the entries of the caller of entry j that come before it, and after it
OwnBefore(j) == {i \in 1..(j - 1) : log[i].by = log[j].by}
OwnAfter(j) == {k \in (j + 1)..Len(log) : log[k].by = log[j].by}

\* the greatest element of a set of entries
Latest(S) == CHOOSE i \in S : \A k \in S : k <= i

\* C25: an activate/deactivate call sends GET and then PUT: every PUT comes
\* right after the served GET of the same call and carries the fetched workflow
\* with active set as the method sets it; a failed GET ends the call with
\* that failure, no PUT follows it and the store is as it was.
C25_GetThenPut ==
    \A j \in 1..Len(log) :
        OfToggle(j) =>
            /\ log[j].kind \in {"GET", "PUT"}
            /\ log[j].kind = "PUT" =>
                   /\ OwnBefore(j) # {}
                   /\ LET i == Latest(OwnBefore(j))
                      IN  /\ log[i].kind = "GET" /\ log[i].ok /\ ~log[i].ends
                          /\ log[i].method = log[j].method
                          /\ log[j].body = [log[i].body EXCEPT !.active = FlagOf(log[j].method)]
            /\ (log[j].kind = "GET" /\ log[j].ok) =>
                   /\ ~log[j].ends
                   /\ log[j].after = log[j].before
            /\ (log[j].kind = "GET" /\ ~log[j].ok) =>
                   /\ log[j].ends
                   /\ log[j].after = log[j].before
                   /\ \A k \in OwnAfter(j) :
                          (\A m \in OwnAfter(j) : k <= m) => log[k].kind = "GET"
                   /\ (OwnAfter(j) = {} /\ ops[log[j].by].pc = "done") =>
                          ops[log[j].by].out = Thrown(request_attempt(log[j].answer).exc)

\* after an activation that was served, a deactivation whose GET met a server
\* error has ended with that error, and the workflow is still active
C25_Witness ==
    /\ Len(log) = 3
    /\ log[1].kind = "GET" /\ log[1].ok /\ log[1].method = "activate_workflow"
    /\ log[2].kind = "PUT" /\ log[2].ok /\ log[2].body.active
    /\ log[3].kind = "GET" /\ ~log[3].ok /\ log[3].method = "deactivate_workflow"
    /\ log[3].answer.status = 500
    /\ ops[1].pc = "done" /\ ops[1].out.exc = "N8NError"
    /\ store # <<>> /\ store[1].active

\* C26: an invocation that ends with a validation_error envelope has issued no
\* HTTP request.
C26_ValidationErrorBeforeAnyRequest ==
    (pc = "done" /\ ErrorEnvelope("validation_error")) => calls = <<>>

\* C27: in the statistics of a health report every fetched execution is counted
\* in exactly one of success_count, error_count and waiting_count, so the three
\* add up to total_executions.
C27_CountsPartitionTotal ==
    HealthReported =>
        LET st == result.data.statistics
        IN  st.success_count + st.error_count + st.waiting_count = st.total_executions

\* the two recommendations about the error rate
ErrorRateMessages ==
    {"High error rate detected. Review workflow logs and fix failing nodes.",
     "Moderate error rate. Consider investigating recent failures."}

\* C28: in a health report the fallback recommendation appears only when
\* health_status is excellent or good, and a report whose health_status is fair
\* or poor carries a recommendation about the error rate.
C28_FallbackOnlyWhenHealthy ==
    HealthReported =>
        LET recs == result.data.recommendations
            h == result.data.health_status
        IN  /\ (\E i \in 1..Len(recs) : recs[i] = FallbackMessage)
                   => h \in {"excellent", "good"}
            /\ h \in {"fair", "poor"}
                   => \E i \in 1..Len(recs) : recs[i] \in ErrorRateMessages

\* the HTTP requests of the invocation that are DELETEs
Deletes == {i \in 1..Len(calls) : calls[i].req.method = "DELETE"}

\* the i-th HTTP request of the invocation failed: a network fault or a status
\* that is not 2xx
RequestFailed(i) == calls[i].fault # "none" \/ ~IsSuccess(calls[i].status)

ServedPuts == {j \in 1..Len(log) : log[j].kind = "PUT" /\ log[j].ok}

\* C30: while an activation and a deactivation of the same workflow run
\* concurrently with no other writer, however their GETs and PUTs interleave,
\* every field of the stored workflow other than active keeps its original
\* value, and active is what the PUT served last wrote (the original value
\* while no PUT was served).
C30_ConcurrentTogglesKeepDefinition ==
    store # <<>> =>
        /\ Len(store) = 1
        /\ \A f \in DefinitionFields \cup {"id"} : store[1][f] = Original(TheId, TRUE)[f]
        /\ ServedPuts # {} => store[1].active = FlagOf(log[Latest(ServedPuts)].method)
        /\ (ServedPuts = {} /\ log # <<>>) => store[1].active = log[1].before[1].active

\* both calls fetched the workflow before either wrote it; the deactivation
\* was written first and the activation last, so the workflow is active
C30_Witness ==
    /\ Len(log) = 4
    /\ log[1].kind = "GET" /\ log[1].by = 1 /\ log[1].ok
    /\ log[2].kind = "GET" /\ log[2].by = 2 /\ log[2].ok
    /\ log[3].kind = "PUT" /\ log[3].by = 2 /\ log[3].ok
    /\ log[4].kind = "PUT" /\ log[4].by = 1 /\ log[4].ok
    /\ ops[1].pc = "done" /\ ops[2].pc = "done"
    /\ ~log[1].before[1].active
    /\ store[1].active /\ store[1].name = "name1"

====
